---- MODULE Spec2Model ----
(***************************************************************************)
(* Model of stm8dce (src/stm8dce/stm8dce.py): dead code elimination on     *)
(* SDCC generated STM8 assembly files.                                     *)
(*                                                                         *)
(* A source line is modelled as a record [k, n, c]:                        *)
(*   k  the kind of statement the text of the line holds once its leading  *)
(*      ';' characters are taken away ("area", "globl", "int", "label",    *)
(*      "call", "ld", "iret", "op", "cmt"),                                *)
(*   n  the operand (the name after .area/.globl/int/call/jp, the label,   *)
(*      the label of a label+offset load source),                          *)
(*   c  the number of ';' characters in front of the text.                 *)
(* Objects (Function, Constant, GlobalDef, IntDef) are records kept in     *)
(* sequences; a reference to an object is its index in its sequence, so    *)
(* two definitions with the same name stay distinct.                       *)
(***************************************************************************)
EXTENDS Integers, Sequences, FiniteSets, TLC

VARIABLES
    disk,        \* file index -> sequence of lines (the files in the output directory)
    orig,        \* the files as they were before the run
    args,        \* [entry, exclude, opt_irq]: the command line
    pc,          \* position of main()
    err,         \* message of the error that ended the run, or NoError
    globals, interrupts, functions, constants,   \* the parsed objects
    mainf,       \* index of the entry function
    keep,        \* sequence of function indices (main's keep list)
    stack,       \* recursion stack of traverse_calls: frames [top, i, ret]
    cursor,      \* loop position in the handler / exclusion / sweep loops
    entered,     \* function index -> times traverse_calls was entered for it
    sweep,       \* [removef, removeg, removei, removec, filef, fileg, filei, filec]
    writes,      \* number of file write-backs done so far
    run,         \* 1 for the first run of the tool, 2 for a run on the first run's output
    scan         \* the state of one file's parse when it is followed call by call

vars == <<disk, orig, args, pc, err, globals, interrupts, functions, constants,
          mainf, keep, stack, cursor, entered, sweep, writes, run, scan>>

----------------------------------------------------------------------------
(* Values *)

None == 0            \* Python's None for object references and line numbers
NoMatch == ""        \* a classifier's None (no name matched)
NoError == [kind |-> "none", name |-> ""]
Error(kind, name) == [kind |-> kind, name |-> name]

Line(k, n) == [k |-> k, n |-> n, c |-> 0]

\* x in a Python list
InList(x, s) == \E i \in 1..Len(s) : s[i] = x

Range(s) == {s[i] : i \in 1..Len(s)}

----------------------------------------------------------------------------
(* Pattern matching *)

\* line.strip().startswith(";")
is_comment(line) == line.c > 0 \/ line.k = "cmt"

\* line.split(";")[0].strip(): nothing is left of a commented line
remove_comments(line) == IF line.c > 0 \/ line.k = "cmt" THEN [k |-> "blank", n |-> "", c |-> 0] ELSE line

is_function_label(line) ==
    IF is_comment(line) THEN NoMatch
    ELSE IF remove_comments(line).k = "label" THEN remove_comments(line).n ELSE NoMatch

is_constant_label(line) == is_function_label(line)

is_call(line) == IF remove_comments(line).k = "call" THEN remove_comments(line).n ELSE NoMatch

is_iret(line) == remove_comments(line).k = "iret"

is_area(line) == IF remove_comments(line).k = "area" THEN remove_comments(line).n ELSE NoMatch

is_global_defs(line) == IF remove_comments(line).k = "globl" THEN remove_comments(line).n ELSE NoMatch

is_int_def(line) == IF remove_comments(line).k = "int" THEN remove_comments(line).n ELSE NoMatch

is_load_src_label(line) == IF remove_comments(line).k = "ld" THEN remove_comments(line).n ELSE NoMatch

----------------------------------------------------------------------------
(* FileIterator *)

FileIterator(path, lines) == [path |-> path, iterable |-> lines, index |-> 0]

\* __next__ raises StopIteration when this is false
HasNext(fileit) == fileit.index < Len(fileit.iterable)

\* the line __next__ returns (Python index fileit.index)
NextLine(fileit) == fileit.iterable[fileit.index + 1]

\* the iterator after __next__
Advance(fileit) == [fileit EXCEPT !.index = @ + 1]

\* prev(): one line back (raises StopIteration at index 0, never the case after a __next__)
prev(fileit) == IF fileit.index > 0 THEN [fileit EXCEPT !.index = @ - 1] ELSE fileit

----------------------------------------------------------------------------
(* Objects *)

GlobalDef(path, name, line) == [path |-> path, name |-> name, line |-> line]

IntDef(path, name, line) == [path |-> path, name |-> name, line |-> line]

Function(path, name, start_line) ==
    [path |-> path, name |-> name, calls_str |-> <<>>, calls |-> <<>>,
     mem_loads_str |-> <<>>, constants |-> <<>>, start_line |-> start_line,
     end_line |-> None, global_defs |-> <<>>, isr_def |-> None, empty |-> TRUE]

Constant(path, name, start_line) ==
    [path |-> path, name |-> name, start_line |-> start_line,
     end_line |-> None, global_defs |-> <<>>]

----------------------------------------------------------------------------
(* Parsing.  Each parser returns the iterator it leaves behind with its result. *)

RECURSIVE parse_function_loop(_, _)
parse_function_loop(fileit, ret) ==
    IF ~HasNext(fileit) THEN [fileit |-> fileit, obj |-> ret]
    ELSE LET line == NextLine(fileit)
             it1 == Advance(fileit)
         IN IF is_comment(line) THEN parse_function_loop(it1, ret)
            ELSE IF is_iret(line) THEN parse_function_loop(it1, ret)
            ELSE IF is_function_label(line) # NoMatch \/ is_area(line) # NoMatch
                 THEN [fileit |-> prev(it1),
                       obj |-> [ret EXCEPT !.end_line = prev(it1).index]]
            ELSE LET r1 == [ret EXCEPT !.empty = FALSE]
                     call == is_call(line)
                     load == is_load_src_label(line)
                 IN IF call # NoMatch /\ ~InList(call, r1.calls_str)
                    THEN parse_function_loop(it1, [r1 EXCEPT !.calls_str = Append(@, call)])
                    ELSE IF load # NoMatch /\ ~InList(load, r1.mem_loads_str)
                    THEN parse_function_loop(it1, [r1 EXCEPT !.mem_loads_str = Append(@, load)])
                    ELSE parse_function_loop(it1, r1)

parse_function(fileit, label) ==
    parse_function_loop(fileit, Function(fileit.path, label, fileit.index))

RECURSIVE parse_constant_loop(_, _)
parse_constant_loop(fileit, ret) ==
    IF ~HasNext(fileit) THEN [fileit |-> fileit, obj |-> ret]
    ELSE LET line == NextLine(fileit)
             it1 == Advance(fileit)
         IN IF is_comment(line) THEN parse_constant_loop(it1, ret)
            ELSE IF is_constant_label(line) # NoMatch \/ is_area(line) # NoMatch
                 THEN [fileit |-> prev(it1),
                       obj |-> [ret EXCEPT !.end_line = prev(it1).index]]
            ELSE parse_constant_loop(it1, ret)

parse_constant(fileit, label) ==
    parse_constant_loop(fileit, Constant(fileit.path, label, fileit.index))

RECURSIVE parse_code_section(_, _)
parse_code_section(fileit, fns) ==
    IF ~HasNext(fileit) THEN [fileit |-> fileit, objs |-> fns]
    ELSE LET line == NextLine(fileit)
             it1 == Advance(fileit)
         IN IF is_area(line) # NoMatch THEN [fileit |-> prev(it1), objs |-> fns]
            ELSE IF is_function_label(line) # NoMatch
                 THEN LET r == parse_function(it1, is_function_label(line))
                      IN parse_code_section(r.fileit, Append(fns, r.obj))
            ELSE parse_code_section(it1, fns)

RECURSIVE parse_const_section(_, _)
parse_const_section(fileit, cs) ==
    IF ~HasNext(fileit) THEN [fileit |-> fileit, objs |-> cs]
    ELSE LET line == NextLine(fileit)
             it1 == Advance(fileit)
         IN IF is_area(line) # NoMatch THEN [fileit |-> prev(it1), objs |-> cs]
            ELSE IF is_constant_label(line) # NoMatch
                 THEN LET r == parse_constant(it1, is_constant_label(line))
                      IN parse_const_section(r.fileit, Append(cs, r.obj))
            ELSE parse_const_section(it1, cs)

RECURSIVE parse_loop(_, _)
parse_loop(fileit, acc) ==
    IF ~HasNext(fileit) THEN acc
    ELSE LET line == NextLine(fileit)
             it1 == Advance(fileit)
         IN IF is_global_defs(line) # NoMatch
            THEN parse_loop(it1, [acc EXCEPT !.globals =
                     Append(@, GlobalDef(it1.path, is_global_defs(line), it1.index))])
            ELSE IF is_int_def(line) # NoMatch
            THEN parse_loop(it1, [acc EXCEPT !.interrupts =
                     Append(@, IntDef(it1.path, is_int_def(line), it1.index))])
            ELSE IF is_area(line) = "CODE"
            THEN LET r == parse_code_section(it1, <<>>)
                 IN parse_loop(r.fileit, [acc EXCEPT !.functions = @ \o r.objs])
            ELSE IF is_area(line) = "CONST"
            THEN LET r == parse_const_section(it1, <<>>)
                 IN parse_loop(r.fileit, [acc EXCEPT !.constants = @ \o r.objs])
            ELSE parse_loop(it1, acc)

parse(fileit) ==
    parse_loop(fileit, [globals |-> <<>>, interrupts |-> <<>>,
                        constants |-> <<>>, functions |-> <<>>])

parse_file(path, lines) == parse(FileIterator(path, lines))

----------------------------------------------------------------------------
(* Function object operations *)

Indices(s) == [i \in 1..Len(s) |-> i]

\* the functions named name, as references, in list order
functions_by_name(fns, name) == SelectSeq(Indices(fns), LAMBDA i : fns[i].name = name)

constants_by_name(cs, name) == SelectSeq(Indices(cs), LAMBDA i : cs[i].name = name)

\* the first component of the path instead of the last
Basename_first(path) == path[1]

\* f.path.split("/")[-1]
Basename(path) == path[Len(path)]

\* returns [f |-> reference or None, err |-> error or NoError]
RECURSIVE function_by_filename_name_loop(_, _, _, _, _)
function_by_filename_name_loop(fns, filename, name, i, ret) ==
    IF i > Len(fns) THEN [f |-> ret, err |-> NoError]
    ELSE IF Basename(fns[i].path) = filename /\ fns[i].name = name
         THEN IF ret # None THEN [f |-> ret, err |-> Error("multiple_definitions", name)]
              ELSE function_by_filename_name_loop(fns, filename, name, i + 1, i)
         ELSE function_by_filename_name_loop(fns, filename, name, i + 1, ret)

function_by_filename_name(fns, filename, name) ==
    function_by_filename_name_loop(fns, filename, name, 1, None)

interrupt_handlers(fns) == SelectSeq(Indices(fns), LAMBDA i : fns[i].isr_def # None)

\* ":" in flabel splits it in two; a specifier is the sequence of its ":"-separated parts
eval_flabel(flabel) ==
    IF Len(flabel) > 1 THEN <<flabel[1], flabel[2]>> ELSE <<NoMatch, flabel[1]>>

----------------------------------------------------------------------------
(* Resolution *)

\* Function.resolve_globals / Constant.resolve_globals: every matching global
resolve_globals(self, globs) ==
    [self EXCEPT !.global_defs = @ \o SelectSeq(Indices(globs), LAMBDA g : globs[g].name = self.name)]

\* Function.resolve_isr: the assignment is overwritten by every later match
RECURSIVE resolve_isr_loop(_, _, _)
resolve_isr_loop(self, ints, i) ==
    IF i > Len(ints) THEN self
    ELSE IF ints[i].name = self.name
         THEN resolve_isr_loop([self EXCEPT !.isr_def = i], ints, i + 1)
         ELSE resolve_isr_loop(self, ints, i + 1)

resolve_isr(self, ints) == resolve_isr_loop(self, ints, 1)

\* no test of f.path: a static definition of any file is taken
RECURSIVE resolve_static_calls_anyfile(_, _, _, _, _)
resolve_static_calls_anyfile(self, fns, funcs, j, matched) ==
    IF j > Len(funcs) THEN [obj |-> self, err |-> NoError]
    ELSE resolve_static_calls_anyfile([self EXCEPT !.calls = Append(@, funcs[j])],
                                      fns, funcs, j + 1, matched)

\* the static branch of resolve_calls; matched is tested and never assigned
RECURSIVE resolve_static_calls(_, _, _, _, _)
resolve_static_calls(self, fns, funcs, j, matched) ==
    IF j > Len(funcs) THEN [obj |-> self, err |-> NoError]
    ELSE IF fns[funcs[j]].path = self.path
         THEN IF matched
              THEN [obj |-> self, err |-> Error("multiple_static_function", fns[funcs[j]].name)]
              ELSE resolve_static_calls([self EXCEPT !.calls = Append(@, funcs[j])],
                                        fns, funcs, j + 1, matched)
         ELSE resolve_static_calls(self, fns, funcs, j + 1, matched)

\* no test of len(funcs): the first definition of an exported name is taken
RECURSIVE resolve_calls_loop_first(_, _, _)
resolve_calls_loop_first(self, fns, k) ==
    IF k > Len(self.calls_str) THEN [obj |-> self, err |-> NoError]
    ELSE LET c == self.calls_str[k]
             funcs == functions_by_name(fns, c)
             glob == \E j \in 1..Len(funcs) : fns[funcs[j]].global_defs # <<>>
         IN IF glob
            THEN resolve_calls_loop_first([self EXCEPT !.calls = Append(@, funcs[1])], fns, k + 1)
            ELSE LET r == resolve_static_calls(self, fns, funcs, 1, FALSE)
                 IN IF r.err # NoError THEN r
                    ELSE resolve_calls_loop_first(r.obj, fns, k + 1)

\* returns [obj |-> the function with its calls resolved, err |-> error or NoError]
RECURSIVE resolve_calls_loop(_, _, _)
resolve_calls_loop(self, fns, k) ==
    IF k > Len(self.calls_str) THEN [obj |-> self, err |-> NoError]
    ELSE LET c == self.calls_str[k]
             funcs == functions_by_name(fns, c)
             glob == \E j \in 1..Len(funcs) : fns[funcs[j]].global_defs # <<>>
         IN IF glob
            THEN IF Len(funcs) > 1
                 THEN [obj |-> self, err |-> Error("conflicting_function", c)]
                 ELSE resolve_calls_loop([self EXCEPT !.calls = Append(@, funcs[1])], fns, k + 1)
            ELSE LET r == resolve_static_calls(self, fns, funcs, 1, FALSE)
                 IN IF r.err # NoError THEN r
                    ELSE resolve_calls_loop(r.obj, fns, k + 1)

resolve_calls(self, fns) == resolve_calls_loop(self, fns, 1)

RECURSIVE resolve_static_constants(_, _, _, _)
resolve_static_constants(self, cs, consts, j) ==
    IF j > Len(consts) THEN self
    ELSE IF cs[consts[j]].path = self.path
         THEN resolve_static_constants([self EXCEPT !.constants = Append(@, consts[j])],
                                       cs, consts, j + 1)
         ELSE resolve_static_constants(self, cs, consts, j + 1)

RECURSIVE resolve_constants_loop(_, _, _)
resolve_constants_loop(self, cs, k) ==
    IF k > Len(self.mem_loads_str) THEN [obj |-> self, err |-> NoError]
    ELSE LET c == self.mem_loads_str[k]
             consts == constants_by_name(cs, c)
             glob == \E j \in 1..Len(consts) : cs[consts[j]].global_defs # <<>>
         IN IF glob
            THEN IF Len(consts) > 1
                 THEN [obj |-> self, err |-> Error("conflicting_constant", c)]
                 ELSE resolve_constants_loop([self EXCEPT !.constants = Append(@, consts[1])], cs, k + 1)
            ELSE resolve_constants_loop(resolve_static_constants(self, cs, consts, 1), cs, k + 1)

resolve_constants(self, cs) == resolve_constants_loop(self, cs, 1)

\* "for f in functions: f.resolve_calls(functions)": stops at the first exit(1).
\* The calls of the functions handled so far are already stored when a later
\* function is resolved; resolution reads only name, path and global_defs.
RECURSIVE resolve_all_calls(_, _)
resolve_all_calls(fns, i) ==
    IF i > Len(fns) THEN [objs |-> fns, err |-> NoError]
    ELSE LET r == resolve_calls(fns[i], fns)
         IN IF r.err # NoError THEN [objs |-> fns, err |-> r.err]
            ELSE resolve_all_calls([fns EXCEPT ![i] = r.obj], i + 1)

RECURSIVE resolve_all_constants(_, _, _)
resolve_all_constants(fns, cs, i) ==
    IF i > Len(fns) THEN [objs |-> fns, err |-> NoError]
    ELSE LET r == resolve_constants(fns[i], cs)
         IN IF r.err # NoError THEN [objs |-> fns, err |-> r.err]
            ELSE resolve_all_constants([fns EXCEPT ![i] = r.obj], cs, i + 1)

----------------------------------------------------------------------------
(* The input files and the command line *)

OutDir == "out"
ListDir == <<"a.asm", "b.asm">>          \* os.listdir(args.output)
Path(i) == <<OutDir, ListDir[i]>>        \* args.output + "/" + file
Paths == {Path(i) : i \in 1..Len(ListDir)}

RecursionLimit == 6     \* frames of traverse_calls the interpreter allows
MaxSlots == 2           \* entries of the interrupt table

RECURSIVE Flatten(_)
Flatten(ss) == IF ss = <<>> THEN <<>> ELSE Head(ss) \o Flatten(Tail(ss))

\* a function as SDCC prints it: a comment, the label, the calls, the loads, the return
Fn(name, calls, loads, tail) == [name |-> name, calls |-> calls, loads |-> loads, tail |-> tail]

FnLines(fd) ==
    <<Line("cmt", fd.name), Line("label", fd.name)>>
    \o [i \in 1..Len(fd.calls) |-> Line("call", fd.calls[i])]
    \o [i \in 1..Len(fd.loads) |-> Line("ld", fd.loads[i])]
    \o (IF fd.tail = "ret" THEN <<Line("op", "ret")>>
        ELSE IF fd.tail = "iret" THEN <<Line("iret", "")>> ELSE <<>>)

ConstLines(name) == <<Line("label", name), Line("op", ".db")>>

File(globl, ints, funcs, consts, closed) ==
    [globl |-> globl, ints |-> ints, funcs |-> funcs, consts |-> consts, closed |-> closed]

FileLines(d) ==
    [i \in 1..Len(d.globl) |-> Line("globl", d.globl[i])]
    \o (IF d.ints = <<>> THEN <<>>
        ELSE <<Line("area", "HOME")>> \o [i \in 1..Len(d.ints) |-> Line("int", d.ints[i])])
    \o <<Line("area", "CODE")>>
    \o Flatten([i \in 1..Len(d.funcs) |-> FnLines(d.funcs[i])])
    \o (IF d.consts = <<>> THEN <<>>
        ELSE <<Line("area", "CONST")>> \o Flatten([i \in 1..Len(d.consts) |-> ConstLines(d.consts[i])]))
    \o (IF d.closed THEN <<Line("area", "INITIALIZER")>> ELSE <<>>)

Input(f1, f2, entry, exclude, opt_irq) ==
    [files |-> <<f1, f2>>, entry |-> entry, exclude |-> exclude, opt_irq |-> opt_irq]

SeqsUpTo(S, n) == UNION {[1..k -> S] : k \in 0..n}

\* call graphs over three functions of one file, with every kind of exclusion
CallChoices == {<<>>, <<"_f">>, <<"_g">>, <<"_main">>, <<"_f", "_g">>, <<"_ext">>}
ExcludeChoices ==
    {<<>>, <<<<"_f">>>>, <<<<"_zz">>>>, <<<<"_g">>>>, <<<<"a.asm", "_g">>>>,
     <<<<"c.asm", "_g">>>>, <<<<"b.asm", "_g">>, <<"_f">>>>}
FamReach ==
    {Input(File(<<>>, <<>>, <<Fn("_main", c1, <<>>, "ret"), Fn("_f", c2, <<>>, "ret"),
                              Fn("_g", c3, <<>>, "ret")>>, <<>>, TRUE),
           File(<<>>, <<>>, <<Fn("_g", <<>>, <<>>, "ret")>>, <<>>, TRUE),
           "_main", x, FALSE) :
        <<c1, c2, c3, x>> \in CallChoices \X CallChoices \X CallChoices \X ExcludeChoices}

\* same-named functions within a file and across files, exported or not
FnNames == {"_main", "_f", "_g"}
GloblChoices == {<<>>, <<"_f">>}
FamLink ==
    {Input(File(g1, <<>>, <<Fn("_main", c1, <<>>, "ret"), Fn(n2, c2, <<>>, "ret"),
                            Fn(n3, <<>>, <<>>, "ret")>>, <<>>, TRUE),
           File(g2, <<>>, <<Fn(n4, <<>>, <<>>, "ret")>>, <<>>, TRUE),
           "_main", x, FALSE) :
        <<g1, g2, c1, n2, c2, n3, n4, x>> \in
            GloblChoices \X GloblChoices \X {<<>>, <<"_f">>, <<"_g">>, <<"_f", "_g">>}
            \X FnNames \X {<<>>, <<"_f">>} \X {"_f", "_g"} \X FnNames
            \X {<<>>, <<<<"a.asm", "_f">>>>}}

\* constants loaded by functions: same-named constants, exported or not
FamConst ==
    {Input(File(g1, <<>>, <<Fn("_main", c1, l1, "ret"), Fn("_f", <<>>, l2, "ret")>>, k1, cl),
           File(g2, <<>>, <<>>, k2, TRUE),
           "_main", <<>>, FALSE) :
        <<g1, g2, c1, l1, l2, k1, k2, cl>> \in
            {<<>>, <<"_k">>} \X {<<>>, <<"_k">>} \X {<<>>, <<"_f">>}
            \X {<<>>, <<"_k">>} \X {<<>>, <<"_k">>, <<"_j">>}
            \X {<<>>, <<"_k">>, <<"_k", "_k">>, <<"_k", "_j">>} \X {<<>>, <<"_k">>}
            \X BOOLEAN}

\* interrupt tables, handlers and exported labels
FamIrq ==
    {Input(File(g1, it, <<Fn("_main", cm, <<>>, "ret"), Fn("_h", ch, <<>>, th),
                          Fn("_g", <<>>, <<>>, tg)>>, <<>>, cl),
           File(<<>>, <<>>, f2, <<>>, TRUE),
           "_main", <<>>, oi) :
        <<g1, it, cm, ch, th, tg, f2, cl, oi>> \in
            {<<>>, <<"_h">>} \X SeqsUpTo({"_h", "_g"}, MaxSlots) \X {<<>>, <<"_h">>}
            \X {<<>>, <<"_g">>} \X {"ret", "iret"} \X {"ret", "iret"}
            \X {<<>>, <<Fn("_h", <<>>, <<>>, "iret")>>, <<Fn("_h", <<"_x">>, <<>>, "iret")>>}
            \X BOOLEAN \X BOOLEAN}

\* an entry label no file defines
FamEntry ==
    {Input(File(<<>>, <<>>, <<Fn("_main", c1, <<>>, "ret"), Fn("_f", <<>>, <<>>, "ret")>>, <<>>, TRUE),
           File(<<>>, <<>>, <<>>, <<>>, TRUE), "_start", x, FALSE) :
        <<c1, x>> \in CallChoices \X ExcludeChoices}

Inputs == FamReach \cup FamLink \cup FamConst \cup FamIrq \cup FamEntry

----------------------------------------------------------------------------
(* main() *)

NoSweep == [removef |-> <<>>, removeg |-> <<>>, removei |-> <<>>, removec |-> <<>>,
            filef |-> <<>>, fileg |-> <<>>, filei |-> <<>>, filec |-> <<>>]

\* no file is being followed call by call
NoScan == [lines |-> <<>>]

Init ==
    \E inp \in Inputs :
        /\ disk = [p \in Paths |-> FileLines(inp.files[CHOOSE i \in 1..Len(ListDir) : Path(i) = p])]
        /\ orig = disk
        /\ args = [entry |-> inp.entry, exclude |-> inp.exclude, opt_irq |-> inp.opt_irq]
        /\ pc = "parse"
        /\ err = NoError
        /\ globals = <<>> /\ interrupts = <<>> /\ functions = <<>> /\ constants = <<>>
        /\ mainf = None
        /\ keep = <<>>
        /\ stack = <<>>
        /\ cursor = 0
        /\ entered = <<>>
        /\ sweep = NoSweep
        /\ writes = 0
        /\ run = 1
        /\ scan = NoScan

\* the error message without the exit(1): main goes on to the removal
Fatal_no_exit(e) ==
    /\ pc' = "remove"
    /\ err' = e

\* exit(1) after an error message: nothing else changes
Fatal(e) ==
    /\ pc' = "fatal"
    /\ err' = e

\* an uncaught exception ends the run
Crash(e) ==
    /\ pc' = "crash"
    /\ err' = e

\* lines 866-872: parse every file of the output directory
RECURSIVE parse_all(_, _, _)
parse_all(files, i, acc) ==
    IF i > Len(ListDir) THEN acc
    ELSE LET r == parse_file(Path(i), files[Path(i)])
             \* references held by the objects of this file are indices, and none is set yet
         IN parse_all(files, i + 1,
                [globals |-> acc.globals \o r.globals,
                 interrupts |-> acc.interrupts \o r.interrupts,
                 constants |-> acc.constants \o r.constants,
                 functions |-> acc.functions \o r.functions])

ParseFiles ==
    /\ pc = "parse"
    /\ LET r == parse_all(disk, 1, [globals |-> <<>>, interrupts |-> <<>>,
                                    constants |-> <<>>, functions |-> <<>>])
       IN /\ globals' = r.globals
          /\ interrupts' = r.interrupts
          /\ constants' = r.constants
          /\ functions' = r.functions
    /\ pc' = "resolve_globals"
    /\ UNCHANGED <<disk, orig, run, scan, args, err, mainf, keep, stack, cursor, entered, sweep, writes>>

ResolveFunctionGlobals ==
    /\ pc = "resolve_globals"
    /\ functions' = [i \in 1..Len(functions) |-> resolve_globals(functions[i], globals)]
    /\ pc' = "resolve_isr"
    /\ UNCHANGED <<disk, orig, run, scan, args, err, globals, interrupts, constants, mainf, keep,
                   stack, cursor, entered, sweep, writes>>

ResolveIsr ==
    /\ pc = "resolve_isr"
    /\ functions' = [i \in 1..Len(functions) |-> resolve_isr(functions[i], interrupts)]
    /\ pc' = "resolve_calls"
    /\ UNCHANGED <<disk, orig, run, scan, args, err, globals, interrupts, constants, mainf, keep,
                   stack, cursor, entered, sweep, writes>>

ResolveCalls ==
    /\ pc = "resolve_calls"
    /\ LET r == resolve_all_calls(functions, 1)
       IN /\ functions' = r.objs
          /\ IF r.err # NoError THEN Fatal(r.err)
             ELSE pc' = "resolve_const_globals" /\ err' = err
    /\ UNCHANGED <<disk, orig, run, scan, args, globals, interrupts, constants, mainf, keep,
                   stack, cursor, entered, sweep, writes>>

ResolveConstantGlobals ==
    /\ pc = "resolve_const_globals"
    /\ constants' = [i \in 1..Len(constants) |-> resolve_globals(constants[i], globals)]
    /\ pc' = "resolve_constants"
    /\ UNCHANGED <<disk, orig, run, scan, args, err, globals, interrupts, functions, mainf, keep,
                   stack, cursor, entered, sweep, writes>>

ResolveConstants ==
    /\ pc = "resolve_constants"
    /\ LET r == resolve_all_constants(functions, constants, 1)
       IN /\ functions' = r.objs
          /\ IF r.err # NoError THEN Fatal(r.err)
             ELSE pc' = "entry" /\ err' = err
    /\ UNCHANGED <<disk, orig, run, scan, args, globals, interrupts, constants, mainf, keep,
                   stack, cursor, entered, sweep, writes>>

(* traverse_calls: the recursion, one frame per activation *)

Frame(top) == [top |-> top, i |-> 1, ret |-> <<>>]

\* a call of traverse_calls(functions, top) from main
StartTraversal(top, at) ==
    /\ stack' = <<Frame(top)>>
    /\ entered' = [i \in 1..Len(functions) |-> IF i = top THEN 1 ELSE 0]
    /\ pc' = at

Traversing == pc \in {"traverse_entry", "traverse_handler", "traverse_exclude"}

\* lines 919-937
FindEntry ==
    /\ pc = "entry"
    /\ LET found == functions_by_name(functions, args.entry)
       IN IF found = <<>>
          THEN Fatal(Error("entry_not_found", args.entry))
               /\ UNCHANGED <<mainf, stack, entered>>
          ELSE IF Len(found) > 1
          THEN Fatal(Error("entry_multiple", args.entry))
               /\ UNCHANGED <<mainf, stack, entered>>
          ELSE /\ mainf' = found[1]
               /\ StartTraversal(found[1], "traverse_entry")
               /\ err' = err
    /\ UNCHANGED <<disk, orig, run, scan, args, globals, interrupts, functions, constants, keep,
                   cursor, sweep, writes>>

\* "if call == top: continue"
TraverseSkipSelf ==
    /\ Traversing
    /\ LET d == Len(stack)
           fr == stack[d]
       IN /\ fr.i <= Len(functions[fr.top].calls)
          /\ functions[fr.top].calls[fr.i] = fr.top
          /\ stack' = [stack EXCEPT ![d].i = @ + 1]
    /\ UNCHANGED <<disk, orig, run, scan, args, pc, err, globals, interrupts, functions, constants,
                   mainf, keep, cursor, entered, sweep, writes>>

\* "ret += [call] + traverse_calls(functions, call)": the recursive call
TraverseDescend ==
    /\ Traversing
    /\ LET d == Len(stack)
           fr == stack[d]
       IN /\ fr.i <= Len(functions[fr.top].calls)
          /\ functions[fr.top].calls[fr.i] # fr.top
          /\ d < RecursionLimit
          /\ LET call == functions[fr.top].calls[fr.i]
             IN /\ stack' = Append([stack EXCEPT ![d].i = @ + 1, ![d].ret = Append(@, call)],
                                   Frame(call))
                /\ entered' = [entered EXCEPT ![call] = @ + 1]
    /\ UNCHANGED <<disk, orig, run, scan, args, pc, err, globals, interrupts, functions, constants,
                   mainf, keep, cursor, sweep, writes>>

\* the recursive call with no frame left: RecursionError
TraverseOverflow ==
    /\ Traversing
    /\ LET d == Len(stack)
           fr == stack[d]
       IN /\ fr.i <= Len(functions[fr.top].calls)
          /\ functions[fr.top].calls[fr.i] # fr.top
          /\ d >= RecursionLimit
          /\ Crash(Error("RecursionError", functions[fr.top].name))
    /\ UNCHANGED <<disk, orig, run, scan, args, globals, interrupts, functions, constants,
                   mainf, keep, stack, cursor, entered, sweep, writes>>

\* the result of the recursive call dropped: "ret += [call]"
TraverseReturn_drop ==
    /\ Traversing
    /\ LET d == Len(stack)
           fr == stack[d]
       IN /\ d > 1
          /\ fr.i > Len(functions[fr.top].calls)
          /\ stack' = SubSeq(stack, 1, d - 1)
    /\ UNCHANGED <<disk, orig, run, scan, args, pc, err, globals, interrupts, functions, constants,
                   mainf, keep, cursor, entered, sweep, writes>>

\* "return ret" to a calling traverse_calls
TraverseReturn ==
    /\ Traversing
    /\ LET d == Len(stack)
           fr == stack[d]
       IN /\ d > 1
          /\ fr.i > Len(functions[fr.top].calls)
          /\ stack' = [SubSeq(stack, 1, d - 1) EXCEPT ![d - 1].ret = @ \o fr.ret]
    /\ UNCHANGED <<disk, orig, run, scan, args, pc, err, globals, interrupts, functions, constants,
                   mainf, keep, cursor, entered, sweep, writes>>

\* "return ret" to main: keep = / keep += [root] + traverse_calls(functions, root)
TraverseFinish ==
    /\ Traversing
    /\ Len(stack) = 1
    /\ LET fr == stack[1]
       IN /\ fr.i > Len(functions[fr.top].calls)
          /\ keep' = keep \o <<fr.top>> \o fr.ret
    /\ stack' = <<>>
    /\ pc' = IF pc = "traverse_exclude" THEN "excludes" ELSE "handlers"
    /\ cursor' = IF pc = "traverse_entry" THEN 1 ELSE cursor + 1
    /\ UNCHANGED <<disk, orig, run, scan, args, err, globals, interrupts, functions, constants,
                   mainf, entered, sweep, writes>>

\* OPT_IRQ not looked at: every empty handler is skipped
HandlerSkip_empty ==
    /\ pc = "handlers"
    /\ cursor <= Len(interrupt_handlers(functions))
    /\ functions[interrupt_handlers(functions)[cursor]].empty
    /\ cursor' = cursor + 1
    /\ UNCHANGED <<disk, orig, run, scan, args, pc, err, globals, interrupts, functions, constants,
                   mainf, keep, stack, entered, sweep, writes>>

\* lines 941-949, one iteration of "for ih in ihandlers"
HandlerSkip ==
    /\ pc = "handlers"
    /\ cursor <= Len(interrupt_handlers(functions))
    /\ args.opt_irq /\ functions[interrupt_handlers(functions)[cursor]].empty
    /\ cursor' = cursor + 1
    /\ UNCHANGED <<disk, orig, run, scan, args, pc, err, globals, interrupts, functions, constants,
                   mainf, keep, stack, entered, sweep, writes>>

\* OPT_IRQ not looked at: every handler is traversed
HandlerTraverse_noopt ==
    /\ pc = "handlers"
    /\ cursor <= Len(interrupt_handlers(functions))
    /\ StartTraversal(interrupt_handlers(functions)[cursor], "traverse_handler")
    /\ UNCHANGED <<disk, orig, run, scan, args, err, globals, interrupts, functions, constants,
                   mainf, keep, cursor, sweep, writes>>

HandlerTraverse ==
    /\ pc = "handlers"
    /\ cursor <= Len(interrupt_handlers(functions))
    /\ ~(args.opt_irq /\ functions[interrupt_handlers(functions)[cursor]].empty)
    /\ StartTraversal(interrupt_handlers(functions)[cursor], "traverse_handler")
    /\ UNCHANGED <<disk, orig, run, scan, args, err, globals, interrupts, functions, constants,
                   mainf, keep, cursor, sweep, writes>>

HandlersDone ==
    /\ pc = "handlers"
    /\ cursor > Len(interrupt_handlers(functions))
    /\ pc' = "excludes"
    /\ cursor' = 1
    /\ UNCHANGED <<disk, orig, run, scan, args, err, globals, interrupts, functions, constants,
                   mainf, keep, stack, entered, sweep, writes>>

\* lines 954-970: the function a specifier names.
\* Returns [f |-> reference or None, err |-> fatal error, exc |-> uncaught exception]
lookup_exclusion(fns, flabel) ==
    LET filename == eval_flabel(flabel)[1]
        name == eval_flabel(flabel)[2]
    IN IF filename # NoMatch
       THEN LET r == function_by_filename_name(fns, filename, name)
            IN [f |-> r.f, err |-> r.err, exc |-> NoError]
       ELSE LET f == functions_by_name(fns, name)
            IN IF Len(f) > 1
               THEN [f |-> None, err |-> Error("exclude_multiple", name), exc |-> NoError]
               ELSE IF f = <<>>
               THEN [f |-> None, err |-> NoError, exc |-> Error("IndexError", name)]   \* f[0]
               ELSE [f |-> f[1], err |-> NoError, exc |-> NoError]

\* lines 952-977, one iteration of "for name in args.exclude"
ExcludeFatal ==
    /\ pc = "excludes"
    /\ cursor <= Len(args.exclude)
    /\ lookup_exclusion(functions, args.exclude[cursor]).err # NoError
    /\ Fatal(lookup_exclusion(functions, args.exclude[cursor]).err)
    /\ UNCHANGED <<disk, orig, run, scan, args, globals, interrupts, functions, constants,
                   mainf, keep, stack, cursor, entered, sweep, writes>>

ExcludeCrash ==
    /\ pc = "excludes"
    /\ cursor <= Len(args.exclude)
    /\ lookup_exclusion(functions, args.exclude[cursor]).exc # NoError
    /\ Crash(lookup_exclusion(functions, args.exclude[cursor]).exc)
    /\ UNCHANGED <<disk, orig, run, scan, args, globals, interrupts, functions, constants,
                   mainf, keep, stack, cursor, entered, sweep, writes>>

\* "if f and (f not in keep)" is false
ExcludeSkip ==
    /\ pc = "excludes"
    /\ cursor <= Len(args.exclude)
    /\ LET r == lookup_exclusion(functions, args.exclude[cursor])
       IN /\ r.err = NoError /\ r.exc = NoError
          /\ r.f = None \/ InList(r.f, keep)
    /\ cursor' = cursor + 1
    /\ UNCHANGED <<disk, orig, run, scan, args, pc, err, globals, interrupts, functions, constants,
                   mainf, keep, stack, entered, sweep, writes>>

ExcludeTraverse ==
    /\ pc = "excludes"
    /\ cursor <= Len(args.exclude)
    /\ LET r == lookup_exclusion(functions, args.exclude[cursor])
       IN /\ r.err = NoError /\ r.exc = NoError
          /\ r.f # None /\ ~InList(r.f, keep)
          /\ StartTraversal(r.f, "traverse_exclude")
    /\ UNCHANGED <<disk, orig, run, scan, args, err, globals, interrupts, functions, constants,
                   mainf, keep, cursor, sweep, writes>>

ExcludesDone ==
    /\ pc = "excludes"
    /\ cursor > Len(args.exclude)
    /\ pc' = "remove"
    /\ UNCHANGED <<disk, orig, run, scan, args, err, globals, interrupts, functions, constants,
                   mainf, keep, stack, cursor, entered, sweep, writes>>

----------------------------------------------------------------------------
(* Lines 979-1038: what to remove, grouped by file *)

RECURSIVE SortedSeq(_)
SortedSeq(S) == IF S = {} THEN <<>>
                ELSE LET m == CHOOSE x \in S : \A y \in S : x <= y
                     IN <<m>> \o SortedSeq(S \ {m})

\* list(set(keep)); the order of the result is not used
remove_duplicates(l) == SortedSeq(Range(l))

\* a dict path -> list, as the sequence of its items in insertion order
RECURSIVE group_by_file(_, _, _)
group_by_file(items, objs, d) ==
    IF items = <<>> THEN d
    ELSE LET x == Head(items)
             path == objs[x].path
         IN IF \E j \in 1..Len(d) : d[j].path = path
            THEN group_by_file(Tail(items), objs,
                     [j \in 1..Len(d) |-> IF d[j].path = path
                                          THEN [d[j] EXCEPT !.items = Append(@, x)] ELSE d[j]])
            ELSE group_by_file(Tail(items), objs, Append(d, [path |-> path, items |-> <<x>>]))

HasKey(d, path) == \E j \in 1..Len(d) : d[j].path = path
Get(d, path) == d[CHOOSE j \in 1..Len(d) : d[j].path = path].items

\* list.remove(x): the first occurrence goes
RECURSIVE list_remove(_, _)
list_remove(l, x) ==
    IF l = <<>> THEN <<>>
    ELSE IF Head(l) = x THEN Tail(l) ELSE <<Head(l)>> \o list_remove(Tail(l), x)

\* d[path].remove(x)
dict_remove(d, path, x) ==
    [j \in 1..Len(d) |-> IF d[j].path = path THEN [d[j] EXCEPT !.items = list_remove(@, x)] ELSE d[j]]

\* a constant counts as used when any function loads it, kept or not
compute_removals_anyref(fns, cs, kept) ==
    LET removef == SelectSeq(Indices(fns), LAMBDA f : ~InList(f, kept))
        removeg1 == Flatten([j \in 1..Len(removef) |-> fns[removef[j]].global_defs])
        removei == [j \in 1..Len(SelectSeq(removef, LAMBDA f : fns[f].isr_def # None)) |->
                        fns[SelectSeq(removef, LAMBDA f : fns[f].isr_def # None)[j]].isr_def]
        removec == SelectSeq(Indices(cs),
                       LAMBDA c : ~\E f \in 1..Len(fns) : InList(c, fns[f].constants))
        removeg == removeg1 \o Flatten([j \in 1..Len(removec) |-> cs[removec[j]].global_defs])
    IN [removef |-> removef, removeg |-> removeg, removei |-> removei, removec |-> removec,
        filef |-> group_by_file(removef, fns, <<>>),
        fileg |-> group_by_file(removeg, globals, <<>>),
        filei |-> group_by_file(removei, interrupts, <<>>),
        filec |-> group_by_file(removec, cs, <<>>)]

\* lines 983-1038: the removal lists and their grouping by file
compute_removals(fns, cs, kept) ==
    LET removef == SelectSeq(Indices(fns), LAMBDA f : ~InList(f, kept))
        removeg1 == Flatten([j \in 1..Len(removef) |-> fns[removef[j]].global_defs])
        removei == [j \in 1..Len(SelectSeq(removef, LAMBDA f : fns[f].isr_def # None)) |->
                        fns[SelectSeq(removef, LAMBDA f : fns[f].isr_def # None)[j]].isr_def]
        removec == SelectSeq(Indices(cs),
                       LAMBDA c : ~\E j \in 1..Len(kept) : InList(c, fns[kept[j]].constants))
        removeg == removeg1 \o Flatten([j \in 1..Len(removec) |-> cs[removec[j]].global_defs])
    IN [removef |-> removef, removeg |-> removeg, removei |-> removei, removec |-> removec,
        filef |-> group_by_file(removef, fns, <<>>),
        fileg |-> group_by_file(removeg, globals, <<>>),
        filei |-> group_by_file(removei, interrupts, <<>>),
        filec |-> group_by_file(removec, cs, <<>>)]

ComputeRemovals ==
    /\ pc = "remove"
    /\ keep' = remove_duplicates(keep)
    /\ sweep' = compute_removals(functions, constants, remove_duplicates(keep))
    /\ pc' = "sweep_functions"
    /\ cursor' = 1
    /\ UNCHANGED <<disk, orig, run, scan, args, err, globals, interrupts, functions, constants,
                   mainf, stack, entered, writes>>

----------------------------------------------------------------------------
(* Lines 1043-1113: the rewrite of the files *)

\* ";" + line
comment(line) == [line EXCEPT !.c = @ + 1]

\* lines[n - 1] = ";" + lines[n - 1]
comment_line(lines, n) == [lines EXCEPT ![n] = comment(@)]

\* the entry taken out of the table instead of overwritten
delete_vector(lines, n) == SubSeq(lines, 1, n - 1) \o SubSeq(lines, n + 1, Len(lines))

\* lines[n - 1] = "\tint 0x000000\n"
null_vector(lines, n) == [lines EXCEPT ![n] = Line("int", "0x000000")]

\* the range taken one line too far: the terminating line is commented out too
RECURSIVE comment_range_next(_, _, _)
comment_range_next(lines, start_line, end_line) ==
    IF start_line > end_line + 1 THEN lines
    ELSE comment_range_next(comment_line(lines, start_line), start_line + 1, end_line)

\* for i in range(start_line - 1, end_line): lines[i] = ";" + lines[i]
RECURSIVE comment_range(_, _, _)
comment_range(lines, start_line, end_line) ==
    IF start_line > end_line THEN lines
    ELSE comment_range(comment_line(lines, start_line), start_line + 1, end_line)

RECURSIVE comment_globals(_, _)
comment_globals(lines, gs) ==
    IF gs = <<>> THEN lines
    ELSE comment_globals(comment_line(lines, globals[Head(gs)].line), Tail(gs))

RECURSIVE null_vectors(_, _)
null_vectors(lines, is) ==
    IF is = <<>> THEN lines
    ELSE null_vectors(null_vector(lines, interrupts[Head(is)].line), Tail(is))

\* objs are functions or constants; range(.., None) raises TypeError
RECURSIVE comment_definitions(_, _, _)
comment_definitions(lines, defs, objs) ==
    IF defs = <<>> THEN lines
    ELSE comment_definitions(
             comment_range(lines, objs[Head(defs)].start_line, objs[Head(defs)].end_line),
             Tail(defs), objs)

HasOpenEnd(defs, objs) == \E j \in 1..Len(defs) : objs[defs[j]].end_line = None

Last(l) == l[Len(l)]

\* one iteration of "for file in filef" (lines 1043-1075)
SweepFunctionsFile ==
    /\ pc = "sweep_functions"
    /\ cursor <= Len(sweep.filef)
    /\ LET file == sweep.filef[cursor].path
           gs == IF HasKey(sweep.fileg, file) THEN Get(sweep.fileg, file) ELSE <<>>
           is == IF HasKey(sweep.filei, file) THEN Get(sweep.filei, file) ELSE <<>>
           fs == sweep.filef[cursor].items
           cs == IF HasKey(sweep.filec, file) THEN Get(sweep.filec, file) ELSE <<>>
       IN IF HasOpenEnd(fs, functions) \/ HasOpenEnd(cs, constants)
          THEN /\ Crash(Error("TypeError", ListDir[CHOOSE i \in 1..Len(ListDir) : Path(i) = file]))
               /\ UNCHANGED <<disk, sweep, writes, cursor>>
          ELSE /\ disk' = [disk EXCEPT ![file] =
                      comment_definitions(
                          comment_definitions(
                              null_vectors(comment_globals(@, gs), is), fs, functions),
                          cs, constants)]
               /\ sweep' = [sweep EXCEPT
                      !.fileg = IF gs # <<>> THEN dict_remove(@, file, Last(gs)) ELSE @,
                      !.filei = IF is # <<>> THEN dict_remove(@, file, Last(is)) ELSE @]
               /\ writes' = writes + 1
               /\ cursor' = cursor + 1
               /\ UNCHANGED <<pc, err>>
    /\ UNCHANGED <<orig, run, scan, args, globals, interrupts, functions, constants, mainf, keep,
                   stack, entered>>

\* one iteration of "for file in fileg" (lines 1081-1089)
SweepGlobalsFile ==
    /\ pc = "sweep_globals"
    /\ cursor <= Len(sweep.fileg)
    /\ disk' = [disk EXCEPT ![sweep.fileg[cursor].path] =
                   comment_globals(@, sweep.fileg[cursor].items)]
    /\ writes' = writes + 1
    /\ cursor' = cursor + 1
    /\ UNCHANGED <<orig, run, scan, args, pc, err, globals, interrupts, functions, constants, mainf,
                   keep, stack, entered, sweep>>

\* one iteration of "for file in filei" (lines 1093-1101)
SweepInterruptsFile ==
    /\ pc = "sweep_interrupts"
    /\ cursor <= Len(sweep.filei)
    /\ disk' = [disk EXCEPT ![sweep.filei[cursor].path] =
                   null_vectors(@, sweep.filei[cursor].items)]
    /\ writes' = writes + 1
    /\ cursor' = cursor + 1
    /\ UNCHANGED <<orig, run, scan, args, pc, err, globals, interrupts, functions, constants, mainf,
                   keep, stack, entered, sweep>>

\* one iteration of "for file in filec" (lines 1104-1113)
SweepConstantsFile ==
    /\ pc = "sweep_constants"
    /\ cursor <= Len(sweep.filec)
    /\ IF HasOpenEnd(sweep.filec[cursor].items, constants)
       THEN /\ Crash(Error("TypeError", Basename(sweep.filec[cursor].path)))
            /\ UNCHANGED <<disk, writes, cursor>>
       ELSE /\ disk' = [disk EXCEPT ![sweep.filec[cursor].path] =
                           comment_definitions(@, sweep.filec[cursor].items, constants)]
            /\ writes' = writes + 1
            /\ cursor' = cursor + 1
            /\ UNCHANGED <<pc, err>>
    /\ UNCHANGED <<orig, run, scan, args, globals, interrupts, functions, constants, mainf,
                   keep, stack, entered, sweep>>

\* a "for file in ..." loop ends and the next one starts; after the last, the summary
SweepNextLoop ==
    /\ \/ pc = "sweep_functions" /\ cursor > Len(sweep.filef) /\ pc' = "sweep_globals"
       \/ pc = "sweep_globals" /\ cursor > Len(sweep.fileg) /\ pc' = "sweep_interrupts"
       \/ pc = "sweep_interrupts" /\ cursor > Len(sweep.filei) /\ pc' = "sweep_constants"
       \/ pc = "sweep_constants" /\ cursor > Len(sweep.filec) /\ pc' = "done"
    /\ cursor' = 1
    /\ UNCHANGED <<disk, orig, run, scan, args, err, globals, interrupts, functions, constants, mainf,
                   keep, stack, entered, sweep, writes>>

\* the tool is started again, with the same command line, on the files a
\* completed first run left in the output directory
Rerun ==
    /\ pc = "done"
    /\ run = 1
    /\ run' = 2
    /\ orig' = disk
    /\ pc' = "parse"
    /\ globals' = <<>> /\ interrupts' = <<>> /\ functions' = <<>> /\ constants' = <<>>
    /\ mainf' = None
    /\ keep' = <<>>
    /\ stack' = <<>>
    /\ cursor' = 0
    /\ entered' = <<>>
    /\ sweep' = NoSweep
    /\ writes' = 0
    /\ UNCHANGED <<disk, args, err, scan>>

Next ==
    \/ ParseFiles
    \/ ResolveFunctionGlobals
    \/ ResolveIsr
    \/ ResolveCalls
    \/ ResolveConstantGlobals
    \/ ResolveConstants
    \/ FindEntry
    \/ TraverseSkipSelf
    \/ TraverseDescend
    \/ TraverseOverflow
    \/ TraverseReturn
    \/ TraverseFinish
    \/ HandlerSkip
    \/ HandlerTraverse
    \/ HandlersDone
    \/ ExcludeFatal
    \/ ExcludeCrash
    \/ ExcludeSkip
    \/ ExcludeTraverse
    \/ ExcludesDone
    \/ ComputeRemovals
    \/ SweepFunctionsFile
    \/ SweepGlobalsFile
    \/ SweepInterruptsFile
    \/ SweepConstantsFile
    \/ SweepNextLoop
    \/ Rerun

Spec == Init /\ [][Next]_vars

----------------------------------------------------------------------------
(* The parse of one file, followed call by call: every step is one pass of the
   "while True" loop of the parser whose frame is on top of the call stack *)

MaxLines == 4           \* lines of the file that is followed call by call

\* the lines such a file is made of
ScanAlphabet ==
    {Line("area", "CODE"), Line("area", "CONST"), Line("area", "HOME"),
     Line("label", "_f"), Line("call", "_g"), Line("cmt", ""),
     Line("globl", "_f"), Line("int", "_f")}

NoResult == [globals |-> <<>>, interrupts |-> <<>>, constants |-> <<>>, functions |-> <<>>]

\* a call of a parser: its name and its local "ret" / list
ScanFrame(fn, ret) == [fn |-> fn, ret |-> ret]

ScanInit(lines) ==
    [fileit |-> FileIterator(Path(1), lines),
     stack |-> <<ScanFrame("parse", NoResult)>>,
     reads |-> [i \in 1..Len(lines) |-> 0],      \* times next() returned line i
     pushed |-> [i \in 1..Len(lines) |-> 0],     \* times prev() went back to line i
     pending |-> 0,             \* depth of the call that went back last, 0 once read again
     underflow |-> FALSE,       \* prev() was called at index 0
     result |-> NoResult]

Top(s) == s.stack[Len(s.stack)]

SetTop(s, ret) == [s EXCEPT !.stack[Len(s.stack)].ret = ret]

\* next(fileit) returning a line
ScanRead(s) ==
    [s EXCEPT !.fileit = Advance(@), !.reads[s.fileit.index + 1] = @ + 1, !.pending = 0]

\* fileit.prev()
ScanPrev(s) ==
    [s EXCEPT !.fileit = prev(@),
              !.pushed = IF s.fileit.index > 0 THEN [@ EXCEPT ![s.fileit.index] = @ + 1] ELSE @,
              !.pending = Len(s.stack),
              !.underflow = @ \/ s.fileit.index = 0]

\* "return ret" of parse_function / parse_constant: the caller appends it
ScanReturnObject(s) ==
    [s EXCEPT !.stack = [SubSeq(@, 1, Len(@) - 1) EXCEPT ![Len(@) - 1].ret = Append(@, Top(s).ret)]]

\* "return functions" / "return constants" of a section parser: parse() extends its list
ScanReturnList(s) ==
    [s EXCEPT !.stack = [SubSeq(@, 1, Len(@) - 1) EXCEPT ![Len(@) - 1].ret =
        IF Top(s).fn = "parse_code_section"
        THEN [@ EXCEPT !.functions = @ \o Top(s).ret]
        ELSE [@ EXCEPT !.constants = @ \o Top(s).ret]]]

ScanOthersUnchanged ==
    UNCHANGED <<disk, orig, args, pc, err, globals, interrupts, functions, constants,
                mainf, keep, stack, cursor, entered, sweep, writes, run>>

\* lines 671-704
ScanParse ==
    /\ scan.stack # <<>> /\ Top(scan).fn = "parse"
    /\ IF ~HasNext(scan.fileit)
       THEN scan' = [scan EXCEPT !.stack = <<>>, !.result = Top(scan).ret]
       ELSE LET line == NextLine(scan.fileit)
                s1 == ScanRead(scan)
            IN IF is_global_defs(line) # NoMatch
               THEN scan' = SetTop(s1, [Top(s1).ret EXCEPT !.globals =
                        Append(@, GlobalDef(s1.fileit.path, is_global_defs(line), s1.fileit.index))])
               ELSE IF is_int_def(line) # NoMatch
               THEN scan' = SetTop(s1, [Top(s1).ret EXCEPT !.interrupts =
                        Append(@, IntDef(s1.fileit.path, is_int_def(line), s1.fileit.index))])
               ELSE IF is_area(line) = "CODE"
               THEN scan' = [s1 EXCEPT !.stack = Append(@, ScanFrame("parse_code_section", <<>>))]
               ELSE IF is_area(line) = "CONST"
               THEN scan' = [s1 EXCEPT !.stack = Append(@, ScanFrame("parse_const_section", <<>>))]
               ELSE scan' = s1
    /\ ScanOthersUnchanged

\* the label is put back for parse_function to read
ScanCodeSection_putback ==
    /\ scan.stack # <<>> /\ Top(scan).fn = "parse_code_section"
    /\ IF ~HasNext(scan.fileit)
       THEN scan' = ScanReturnList(scan)
       ELSE LET line == NextLine(scan.fileit)
                s1 == ScanRead(scan)
            IN IF is_area(line) # NoMatch
               THEN scan' = ScanReturnList(ScanPrev(s1))
               ELSE IF is_function_label(line) # NoMatch
               THEN scan' = [ScanPrev(s1) EXCEPT !.stack = Append(@, ScanFrame("parse_function",
                        Function(s1.fileit.path, is_function_label(line), s1.fileit.index)))]
               ELSE scan' = s1
    /\ ScanOthersUnchanged

\* lines 608-627
ScanCodeSection ==
    /\ scan.stack # <<>> /\ Top(scan).fn = "parse_code_section"
    /\ IF ~HasNext(scan.fileit)
       THEN scan' = ScanReturnList(scan)
       ELSE LET line == NextLine(scan.fileit)
                s1 == ScanRead(scan)
            IN IF is_area(line) # NoMatch
               THEN scan' = ScanReturnList(ScanPrev(s1))
               ELSE IF is_function_label(line) # NoMatch
               THEN scan' = [s1 EXCEPT !.stack = Append(@, ScanFrame("parse_function",
                        Function(s1.fileit.path, is_function_label(line), s1.fileit.index)))]
               ELSE scan' = s1
    /\ ScanOthersUnchanged

\* lines 634-653
ScanConstSection ==
    /\ scan.stack # <<>> /\ Top(scan).fn = "parse_const_section"
    /\ IF ~HasNext(scan.fileit)
       THEN scan' = ScanReturnList(scan)
       ELSE LET line == NextLine(scan.fileit)
                s1 == ScanRead(scan)
            IN IF is_area(line) # NoMatch
               THEN scan' = ScanReturnList(ScanPrev(s1))
               ELSE IF is_constant_label(line) # NoMatch
               THEN scan' = [s1 EXCEPT !.stack = Append(@, ScanFrame("parse_constant",
                        Constant(s1.fileit.path, is_constant_label(line), s1.fileit.index)))]
               ELSE scan' = s1
    /\ ScanOthersUnchanged

\* lines 522-568
ScanFunction ==
    /\ scan.stack # <<>> /\ Top(scan).fn = "parse_function"
    /\ IF ~HasNext(scan.fileit)
       THEN scan' = ScanReturnObject(scan)
       ELSE LET line == NextLine(scan.fileit)
                s1 == ScanRead(scan)
                r1 == [Top(scan).ret EXCEPT !.empty = FALSE]
                call == is_call(line)
                load == is_load_src_label(line)
            IN IF is_comment(line) \/ is_iret(line)
               THEN scan' = s1
               ELSE IF is_function_label(line) # NoMatch \/ is_area(line) # NoMatch
               THEN scan' = ScanReturnObject(
                        SetTop(ScanPrev(s1), [Top(s1).ret EXCEPT !.end_line = prev(s1.fileit).index]))
               ELSE IF call # NoMatch /\ ~InList(call, r1.calls_str)
               THEN scan' = SetTop(s1, [r1 EXCEPT !.calls_str = Append(@, call)])
               ELSE IF load # NoMatch /\ ~InList(load, r1.mem_loads_str)
               THEN scan' = SetTop(s1, [r1 EXCEPT !.mem_loads_str = Append(@, load)])
               ELSE scan' = SetTop(s1, r1)
    /\ ScanOthersUnchanged

\* lines 581-596
ScanConstant ==
    /\ scan.stack # <<>> /\ Top(scan).fn = "parse_constant"
    /\ IF ~HasNext(scan.fileit)
       THEN scan' = ScanReturnObject(scan)
       ELSE LET line == NextLine(scan.fileit)
                s1 == ScanRead(scan)
            IN IF is_comment(line)
               THEN scan' = s1
               ELSE IF is_constant_label(line) # NoMatch \/ is_area(line) # NoMatch
               THEN scan' = ScanReturnObject(
                        SetTop(ScanPrev(s1), [Top(s1).ret EXCEPT !.end_line = prev(s1.fileit).index]))
               ELSE scan' = s1
    /\ ScanOthersUnchanged

\* parse(FileIterator(f)) is called on a file of up to MaxLines lines
InitScan ==
    /\ \E lines \in SeqsUpTo(ScanAlphabet, MaxLines) : scan = ScanInit(lines)
    /\ disk = [p \in Paths |-> <<>>]
    /\ orig = disk
    /\ args = [entry |-> "_main", exclude |-> <<>>, opt_irq |-> FALSE]
    /\ pc = "parse"
    /\ err = NoError
    /\ globals = <<>> /\ interrupts = <<>> /\ functions = <<>> /\ constants = <<>>
    /\ mainf = None
    /\ keep = <<>>
    /\ stack = <<>>
    /\ cursor = 0
    /\ entered = <<>>
    /\ sweep = NoSweep
    /\ writes = 0
    /\ run = 1

NextScan ==
    \/ ScanParse
    \/ ScanCodeSection
    \/ ScanConstSection
    \/ ScanFunction
    \/ ScanConstant

\* the interpreter goes on executing the parser until it returns
SpecScan == InitScan /\ [][NextScan]_vars /\ WF_vars(NextScan)

----------------------------------------------------------------------------
(* Notions the properties are stated in *)

FunctionRefs == 1..Len(functions)
ConstantRefs == 1..Len(constants)

\* main has built the keep list (line 977 is behind it)
KeepBuilt == pc \in {"remove", "sweep_functions", "sweep_globals", "sweep_interrupts",
                     "sweep_constants", "done"}

Kept == Range(keep)

\* the functions a specifier names
Named(flabel) ==
    {f \in FunctionRefs :
        \/ Len(flabel) = 1 /\ functions[f].name = flabel[1]
        \/ Len(flabel) = 2 /\ functions[f].name = flabel[2]
                           /\ functions[f].path[Len(functions[f].path)] = flabel[1]}

\* the roots of the keep-set: the entry, the kept interrupt handlers, the exclusions
Roots ==
    {mainf}
    \cup {f \in FunctionRefs : functions[f].isr_def # None
                               /\ ~(args.opt_irq /\ functions[f].empty)}
    \cup UNION {Named(args.exclude[k]) : k \in 1..Len(args.exclude)}

\* the functions reachable from S along resolved call edges
RECURSIVE Reach(_)
Reach(S) ==
    LET T == S \cup {g \in FunctionRefs : \E f \in S : InList(g, functions[f].calls)}
    IN IF T = S THEN S ELSE Reach(T)

\* the definitions of a name, and whether the name is exported somewhere
FunctionDefs(name) == {f \in FunctionRefs : functions[f].name = name}
ConstantDefs(name) == {c \in ConstantRefs : constants[c].name = name}
Exported(name) == \E g \in 1..Len(globals) : globals[g].name = name

\* a vector-directive line
IsVector(line) == line.k = "int" /\ line.c = 0
NullVector == [k |-> "int", n |-> "0x000000", c |-> 0]

----------------------------------------------------------------------------
(* Properties *)

\* C1: whatever the input and the options, every file holds as many lines as
\* before the run at every moment of the sweep, and so when the run completes:
\* the sweep overwrites lines and never inserts or deletes one.
C1_LineCountPreserved ==
    \A p \in Paths : Len(disk[p]) = Len(orig[p])

\* a completed run that commented out a function and an exported label and
\* zeroed a vector entry
C1_Witness ==
    /\ pc = "done"
    /\ sweep.removef # <<>> /\ sweep.removeg # <<>> /\ sweep.removei # <<>>
    /\ \E p \in Paths : disk[p] # orig[p]

\* C2 (as claimed): after a completed run the vector-directive lines are the
\* lines that were vector-directive lines before; the entry of a handler whose
\* definitions were all removed reads "int 0x000000", and the entry of a
\* handler with a kept definition is unchanged.
C2_VectorSlotsPreserved ==
    pc = "done" =>
        \A p \in Paths : \A i \in 1..Len(orig[p]) :
            /\ IsVector(disk[p][i]) <=> IsVector(orig[p][i])
            /\ IsVector(orig[p][i]) =>
                LET defs == FunctionDefs(orig[p][i].n)
                IN /\ (defs # {} /\ defs \cap Kept = {}) => disk[p][i] = NullVector
                   /\ (defs \cap Kept # {}) => disk[p][i] = orig[p][i]

\* C3: once the keep list is built, every function a kept function calls
\* (resolved call) is kept: no removed function is called by kept code.
C3_KeepClosed ==
    KeepBuilt =>
        \A f \in Kept : \A g \in FunctionRefs :
            InList(g, functions[f].calls) => g \in Kept

\* a function kept only because a callee of the entry calls it, next to a
\* removed function
C3_Witness ==
    /\ KeepBuilt
    /\ \E f, g \in Kept :
          /\ f # mainf /\ g # mainf /\ f # g
          /\ InList(f, functions[mainf].calls)
          /\ ~InList(g, functions[mainf].calls)
          /\ InList(g, functions[f].calls)
    /\ \E h \in FunctionRefs : h \notin Kept

\* C4: once the keep list is built, every kept function is a root (the entry,
\* a kept interrupt handler, a function an exclusion names) or is reachable
\* from a root along resolved calls.
C4_KeepReachable ==
    KeepBuilt => Kept \subseteq Reach(Roots)

\* a kept function that is no root, with a handler and an exclusion among the roots
C4_Witness ==
    /\ KeepBuilt
    /\ \E f \in Kept : f \notin Roots
    /\ \E f \in FunctionRefs : f \notin Reach(Roots)

\* C5 (as claimed): the traversal from a root ends without exhausting the
\* stack and enters each function definition at most once.
C5_TraversalVisitsOnce ==
    /\ err.kind # "RecursionError"
    /\ \A f \in 1..Len(entered) : entered[f] <= 1

\* the run has not yet resolved the calls / the loaded constants
PreCalls == {"parse", "resolve_globals", "resolve_isr", "resolve_calls"}
PreConstants == PreCalls \cup {"resolve_const_globals", "resolve_constants"}
LinkErrors == {"conflicting_function", "conflicting_constant", "multiple_static_function"}
FatalErrors == LinkErrors \cup {"entry_not_found", "entry_multiple", "exclude_multiple",
                                "multiple_definitions"}
Resolved == pc \notin PreConstants /\ err.kind \notin LinkErrors

\* C6: a run that ended in a fatal error (conflicting definitions, multiple
\* static definitions, entry not found or ambiguous, exclusion ambiguous) has
\* written no file: every file is as it was.
C6_FatalBeforeWrite ==
    err.kind \in FatalErrors => writes = 0 /\ disk = orig

\* the last fatal exit of main, an ambiguous exclusion, with the keep list begun
C6_Witness ==
    /\ pc = "fatal"
    /\ err.kind = "exclude_multiple"
    /\ keep # <<>>

\* C7: once calls (label loads) are resolved, a referenced name that is
\* exported and has more than one definition has ended the run in a fatal
\* error; a referenced exported name with one definition is resolved to that
\* definition, in whatever file the referencing function is.
C7_ExportedNameUnique ==
    /\ pc \notin PreCalls =>
          \A f \in FunctionRefs : \A k \in 1..Len(functions[f].calls_str) :
              LET c == functions[f].calls_str[k]
              IN (Exported(c) /\ Cardinality(FunctionDefs(c)) > 1)
                    => (pc = "fatal" /\ err.kind = "conflicting_function")
    /\ pc \notin PreConstants =>
          \A f \in FunctionRefs : \A k \in 1..Len(functions[f].mem_loads_str) :
              LET c == functions[f].mem_loads_str[k]
              IN (Exported(c) /\ Cardinality(ConstantDefs(c)) > 1)
                    => (pc = "fatal" /\ err.kind \in {"conflicting_function", "conflicting_constant"})
    /\ Resolved =>
          \A f \in FunctionRefs :
              /\ \A k \in 1..Len(functions[f].calls_str) : \A d \in FunctionRefs :
                    (Exported(functions[f].calls_str[k])
                        /\ FunctionDefs(functions[f].calls_str[k]) = {d})
                    => InList(d, functions[f].calls)
              /\ \A k \in 1..Len(functions[f].mem_loads_str) : \A d \in ConstantRefs :
                    (Exported(functions[f].mem_loads_str[k])
                        /\ ConstantDefs(functions[f].mem_loads_str[k]) = {d})
                    => InList(d, functions[f].constants)

\* a call to an exported name defined in two files has ended the run
C7_Witness ==
    /\ pc = "fatal"
    /\ err.kind = "conflicting_function"
    /\ \E d1, d2 \in FunctionDefs(err.name) : functions[d1].path # functions[d2].path
    /\ \E f \in FunctionRefs : InList(err.name, functions[f].calls_str)

\* C8 (as claimed): once calls are resolved, a call to a name that is not
\* exported and that the caller's file defines more than once has ended the
\* run in a fatal error, and the call is never resolved to several definitions.
C8_MultipleStaticIsFatal ==
    pc \notin PreCalls =>
        \A f \in FunctionRefs : \A k \in 1..Len(functions[f].calls_str) :
            LET c == functions[f].calls_str[k]
                here == {d \in FunctionDefs(c) : functions[d].path = functions[f].path}
            IN (~Exported(c) /\ Cardinality(here) > 1) =>
                  /\ pc = "fatal" /\ err.kind \in LinkErrors
                  /\ Cardinality({d \in here : InList(d, functions[f].calls)}) <= 1

\* C9: once calls and label loads are resolved, a reference to a name that is
\* not exported is resolved to definitions of the referencing function's file
\* only; when that file has no definition of the name the reference adds no
\* edge, and no error is ever raised for a name that is not exported.
C9_StaticResolvesInFile ==
    /\ Resolved =>
          \A f \in FunctionRefs :
              /\ \A d \in FunctionRefs :
                    (InList(d, functions[f].calls) /\ ~Exported(functions[d].name))
                    => functions[d].path = functions[f].path
              /\ \A d \in ConstantRefs :
                    (InList(d, functions[f].constants) /\ ~Exported(constants[d].name))
                    => constants[d].path = functions[f].path
              /\ \A k \in 1..Len(functions[f].calls_str) :
                    LET c == functions[f].calls_str[k]
                    IN (~Exported(c) /\ \A d \in FunctionDefs(c) : functions[d].path # functions[f].path)
                       => \A d \in FunctionDefs(c) : ~InList(d, functions[f].calls)
    /\ err.kind \in LinkErrors => Exported(err.name)

\* a completed run in which a function calls a name that is not exported and
\* that only the other file defines: the call has no edge
C9_Witness ==
    /\ pc = "done"
    /\ \E f \in FunctionRefs : \E k \in 1..Len(functions[f].calls_str) :
          LET c == functions[f].calls_str[k]
          IN /\ ~Exported(c)
             /\ FunctionDefs(c) # {}
             /\ \A d \in FunctionDefs(c) : functions[d].path # functions[f].path
             /\ \A d \in FunctionDefs(c) : ~InList(d, functions[f].calls)

\* C10 (as claimed): an exclusion specifier that names no function, bare or
\* qualified by a file name, does not end the run, and the keep-set is the one
\* the other roots give.
C10_UnmatchedExclusionIgnored ==
    /\ \A k \in 1..Len(args.exclude) :
          Named(args.exclude[k]) = {} => ~(pc = "crash" /\ err.kind = "IndexError")
    /\ (KeepBuilt /\ \E k \in 1..Len(args.exclude) : Named(args.exclude[k]) = {})
          => Kept = Reach(Roots)

\* the roots other than the k-th exclusion
OtherRoots(k) ==
    {mainf}
    \cup {f \in FunctionRefs : functions[f].isr_def # None
                               /\ ~(args.opt_irq /\ functions[f].empty)}
    \cup UNION {Named(args.exclude[j]) : j \in 1..Len(args.exclude) \ {k}}

\* the exclusions "file:name" whose name is a non-exported function that this
\* file and another file both define
StaticExclusions ==
    {k \in 1..Len(args.exclude) :
        /\ Len(args.exclude[k]) = 2
        /\ ~Exported(args.exclude[k][2])
        /\ Named(args.exclude[k]) # {}
        /\ FunctionDefs(args.exclude[k][2]) \ Named(args.exclude[k]) # {}}

\* C11: when two files each define a non-exported function of the same name,
\* the exclusion "fileA.asm:name" names exactly file A's definition; that
\* definition and everything it transitively calls are kept, and the other
\* file's definition is kept only if another root reaches it.
C11_QualifiedExclusionPicksFile ==
    KeepBuilt =>
        \A k \in StaticExclusions :
            LET here == Named(args.exclude[k])
            IN /\ Cardinality(here) = 1
               /\ \A f \in here : Basename(functions[f].path) = args.exclude[k][1]
               /\ Reach(here) \subseteq Kept
               /\ \A d \in FunctionDefs(args.exclude[k][2]) \ here :
                      d \in Kept => d \in Reach(OtherRoots(k))

\* a completed run that kept file A's definition with a callee of it only the
\* exclusion reaches, and removed file B's definition
C11_Witness ==
    /\ pc = "done"
    /\ \E k \in StaticExclusions :
          /\ Reach(Named(args.exclude[k])) \ (Reach(OtherRoots(k)) \cup Named(args.exclude[k])) # {}
          /\ \E d \in FunctionDefs(args.exclude[k][2]) : d \notin Kept

\* the handlers with a vector entry and a body of nothing but "iret" that no
\* other kept function calls
EmptyHandlers ==
    {h \in FunctionRefs :
        /\ functions[h].isr_def # None
        /\ functions[h].empty
        /\ \A f \in Kept \ {h} : ~InList(h, functions[f].calls)}

\* the line of the vector entry resolve_isr attached to function h, in files d
VectorLine(d, h) ==
    d[interrupts[functions[h].isr_def].path][interrupts[functions[h].isr_def].line]

\* C12: after a completed run, a handler with a vector entry, a body of only
\* "iret" and no kept caller is kept with its vector entry line unchanged when
\* the empty-handler option is off, and is removed with its vector entry line
\* reading "int 0x000000" when the option is on; with the option off every
\* function carrying a vector entry is kept.
C12_EmptyHandlerOption ==
    pc = "done" =>
        /\ \A h \in EmptyHandlers :
              IF args.opt_irq
              THEN h \notin Kept /\ VectorLine(disk, h) = NullVector
              ELSE h \in Kept /\ VectorLine(disk, h) = VectorLine(orig, h)
        /\ ~args.opt_irq =>
              \A f \in FunctionRefs : functions[f].isr_def # None => f \in Kept

\* a completed run with the option on that removed an empty handler and
\* zeroed its entry, which named it before
C12_Witness ==
    /\ pc = "done"
    /\ args.opt_irq
    /\ \E h \in EmptyHandlers :
          /\ h \notin Kept
          /\ VectorLine(orig, h) = Line("int", functions[h].name)
          /\ VectorLine(disk, h) = NullVector

\* main has computed what it removes (line 1005 is behind it)
RemovalsKnown == pc \in {"sweep_functions", "sweep_globals", "sweep_interrupts",
                         "sweep_constants", "done"}

\* C13 (as claimed): a second run on the output of a completed first run, with
\* the same entry, exclusions and options, removes no function and no constant.
C13_SecondRunRemovesNothing ==
    (run = 2 /\ RemovalsKnown) => sweep.removef = <<>> /\ sweep.removec = <<>>

\* the removed definitions, as the keep list determines them
DeadFunctions == FunctionRefs \ Kept
DeadConstants ==
    {c \in ConstantRefs : \A f \in Kept : ~InList(c, functions[f].constants)}

\* the lines of file p a definition spans: from its label up to the line before
\* the one that ended it, or up to the end of the file
DefLines(obj, p) ==
    IF obj.path # p THEN {}
    ELSE obj.start_line .. (IF obj.end_line = None THEN Len(orig[p]) ELSE obj.end_line)

\* the lines of file p in the range of a dead function or constant
DeadRangeLines(p) ==
    UNION {DefLines(functions[f], p) : f \in DeadFunctions}
    \cup UNION {DefLines(constants[c], p) : c \in DeadConstants}

\* the exported-label lines of file p attached to a dead function or constant
DeadExportLines(p) ==
    {globals[g].line : g \in {g \in 1..Len(globals) :
        /\ globals[g].path = p
        /\ \/ \E f \in DeadFunctions : InList(g, functions[f].global_defs)
           \/ \E c \in DeadConstants : InList(g, constants[c].global_defs)}}

\* the vector entry lines of file p attached to a dead function
DeadVectorLines(p) ==
    {interrupts[i].line : i \in {i \in 1..Len(interrupts) :
        /\ interrupts[i].path = p
        /\ \E f \in DeadFunctions : functions[f].isr_def = i}}

\* the lines of file p the removal may touch
DeadLines(p) == DeadRangeLines(p) \cup DeadExportLines(p) \cup DeadVectorLines(p)

KeptLines(p) ==
    UNION {DefLines(functions[f], p) : f \in Kept}
    \cup UNION {DefLines(constants[c], p) : c \in ConstantRefs \ DeadConstants}

\* the sweep has begun, and has ended or not
Sweeping == RemovalsKnown \/ err.kind = "TypeError"

\* C14: during and after the sweep, every line that is not in the range of a
\* dead function or constant, not the exported-label line of one and not the
\* vector entry line of a dead function reads as it did before the run; no
\* line of a kept function or constant is altered.
C14_Frame ==
    Sweeping =>
        \A p \in Paths : \A i \in 1..Len(orig[p]) :
            /\ i \notin DeadLines(p) => disk[p][i] = orig[p][i]
            /\ i \in KeptLines(p) => disk[p][i] = orig[p][i]

\* a completed run that commented out a function whose range ends right
\* before the label of a kept function
C14_Witness ==
    /\ pc = "done"
    /\ \E f \in DeadFunctions : \E g \in Kept :
          /\ functions[g].path = functions[f].path
          /\ functions[g].start_line = functions[f].end_line + 1
          /\ disk[functions[f].path][functions[f].end_line]
                 = comment(orig[functions[f].path][functions[f].end_line])
          /\ disk[functions[g].path][functions[g].start_line]
                 = orig[functions[g].path][functions[g].start_line]

\* C15 (as claimed): every function and constant the parser produced has an
\* end line, not before its start line, also when the end of the input ended
\* it; so the sweep never fails on a dead definition, the last of a file included.
C15_EndLineDefined ==
    /\ \A f \in FunctionRefs :
          functions[f].end_line # None /\ functions[f].end_line >= functions[f].start_line
    /\ \A c \in ConstantRefs :
          constants[c].end_line # None /\ constants[c].end_line >= constants[c].start_line
    /\ err.kind # "TypeError"

\* C16 (as claimed): after a completed run every exported-label line of a dead
\* definition and every line in the range of a dead function or constant is
\* its original text behind one comment marker, however the dead items are
\* spread over the files: each edit is applied once.
C16_CommentedOnce ==
    pc = "done" =>
        \A p \in Paths : \A i \in DeadRangeLines(p) \cup DeadExportLines(p) :
            disk[p][i] = comment(orig[p][i])

\* C17: the constants main removes are the parsed constants that no kept
\* function has among its resolved label references; after a completed run
\* their label lines, and no other constant's, are commented out.
C17_RemovedConstants ==
    /\ RemovalsKnown => Range(sweep.removec) = DeadConstants
    /\ pc = "done" =>
          \A c \in ConstantRefs :
              (disk[constants[c].path][constants[c].start_line].c > 0) <=> c \in DeadConstants

\* a completed run that removed a constant only a removed function loads and
\* kept a constant a kept function loads
C17_Witness ==
    /\ pc = "done"
    /\ \E c \in DeadConstants :
          /\ \E f \in DeadFunctions : InList(c, functions[f].constants)
          /\ disk[constants[c].path][constants[c].start_line].c > 0
    /\ \E c \in ConstantRefs \ DeadConstants :
          disk[constants[c].path][constants[c].start_line] = Line("label", constants[c].name)

\* the scanner is inside the file, prev() was never called at index 0, the call
\* that went back has returned, and no line was returned more than three times
\* (to the definition it ends, to the section and to parse)
ScanSafe ==
    /\ scan.fileit.index \in 0..Len(scan.fileit.iterable)
    /\ ~scan.underflow
    /\ scan.pending # 0 => Len(scan.stack) < scan.pending
    /\ \A i \in 1..Len(scan.fileit.iterable) :
          scan.reads[i] <= 3 /\ scan.pushed[i] <= scan.reads[i]

\* parse() has returned: every line was read, once more than it was put back,
\* and the collections are those parse returns
ScanReturned ==
    /\ scan.stack = <<>>
    /\ scan.fileit.index = Len(scan.fileit.iterable)
    /\ \A i \in 1..Len(scan.fileit.iterable) : scan.reads[i] = scan.pushed[i] + 1
    /\ scan.result = parse_file(scan.fileit.path, scan.fileit.iterable)

\* C18: the parse of one file ends for every finite sequence of lines: the
\* scanner position stays within 0..length, prev() is never called at position
\* zero, and a line put back is read again by an enclosing parser that goes on,
\* so that parse() returns with every line consumed.
C18_ParseTerminates ==
    /\ [](ScanSafe /\ (scan.stack = <<>> => ScanReturned))
    /\ <>ScanReturned

\* a parse that has returned after a line was put back twice: by the function
\* it ended and by the section
C18_Witness ==
    /\ ScanReturned
    /\ \E i \in 1..Len(scan.fileit.iterable) : scan.pushed[i] = 2 /\ scan.reads[i] = 3
    /\ scan.result.functions # <<>>

============================================================================
